---------------------------- MODULE Spec2Model ----------------------------
(***************************************************************************)
(* Model of the sun-route map component of rashid-360/veil.                *)
(*                                                                         *)
(* Two variants of the component exist in the repository:                  *)
(*   "part_000"  src/unnamed/part_000      (inline solar code, 50 km/h)    *)
(*   "page"      src/src/app/map/page.tsx  (SunCalc, 15 km/h)              *)
(* The variable `variant` says which one is mounted.                       *)
(*                                                                         *)
(* Numbers.  A JavaScript number is modelled as a record                   *)
(* [nan |-> BOOLEAN, v |-> Int]; NaN is [nan |-> TRUE, v |-> 0].           *)
(* Units:                                                                  *)
(*   - latitude / longitude / azimuth / heading: whole degrees;            *)
(*   - sun altitude: thousandths of a degree (so -0.833 deg is -833);     *)
(*   - time: ticks, one tick being the time needed to travel one degree    *)
(*     of great-circle arc at 150 km/h (6371*pi/180/150 h), so that a      *)
(*     degree of arc takes 3 ticks at 50 km/h and 10 ticks at 15 km/h.     *)
(* Route coordinates are taken on the equator, where the haversine and     *)
(* forward-azimuth formulas of the source have closed forms; the solar     *)
(* ephemeris (getSunPosition / SunCalc.getPosition) is an input of the     *)
(* traversal step, drawn from SunPositions.                                *)
(***************************************************************************)
EXTENDS Integers, Sequences, FiniteSets, TLC

VARIABLES
    variant,            \* which source variant is mounted
    startText, endText, \* useState: text of the two location fields
    startCoords,        \* useState: Coordinate | null (NoCoord)
    endCoords,
    customTime,         \* useState: datetime-local string
    useCurrentTime,     \* useState: checkbox
    isLoading,          \* useState
    error,              \* useState: error banner text
    routeCalculated,    \* useState (part_000 only)
    routingControlRef,  \* useRef: id of the attached routing control, 0 = null
    controls,           \* routing controls created so far: id -> closure + request state
    layers,             \* weight-5 polylines on the map
    sunPercent,         \* innerHTML of the #sunPercent element
    shownBy,            \* history: id of the control whose handler last wrote sunPercent (0 = none)
    draw,               \* the drawRouteSun invocation in progress (suspended at an await)
    h,                  \* the routesfound handler invocation in progress
    startSuggestions,   \* useState: suggestion list of the start field
    endSuggestions,     \* useState: suggestion list of the end field
    debounceTimeouts,   \* useRef (part_000): the pending debounce timer of each field
    searches,           \* suggestion searches in flight (fetch not yet answered)
    quiet,              \* history: per field, the user's last action on it emptied its list
    sinceReset,         \* history: resetRoute has run and the user has done nothing since
    runs                \* history: the traversals made so far (NoLog: not recorded)

vars == << variant, startText, endText, startCoords, endCoords, customTime,
           useCurrentTime, isLoading, error, routeCalculated, routingControlRef,
           controls, layers, sunPercent, shownBy, draw, h,
           startSuggestions, endSuggestions, debounceTimeouts, searches, quiet,
           sinceReset, runs >>

\* the state of the suggestion lists (quiet: the last thing the user did to
\* the field was an edit to a text of length <= 2 or the selection of a
\* suggestion)
formVars == << startSuggestions, endSuggestions, debounceTimeouts, searches, quiet >>

---------------------------------------------------------------------------
(* Bounds of the model *)

\* longest route (number of coordinates) a routing response carries
MaxRoute == 3
\* number of routing controls (Draw Route requests reaching Routing.control)
MaxControls == 2

---------------------------------------------------------------------------
(* JavaScript numbers *)

NaN == [nan |-> TRUE, v |-> 0]
Num(x) == [nan |-> FALSE, v |-> x]
isNaN(a) == a.nan

\* a + b
NumAdd(a, b) == IF a.nan \/ b.nan THEN NaN ELSE Num(a.v + b.v)
\* a - b
NumSub(a, b) == IF a.nan \/ b.nan THEN NaN ELSE Num(a.v - b.v)
\* a > b : false when either side is NaN
NumGt(a, b) == ~a.nan /\ ~b.nan /\ a.v > b.v
\* a < b : false when either side is NaN
NumLt(a, b) == ~a.nan /\ ~b.nan /\ a.v < b.v
\* truthiness of a number: 0 and NaN are falsy
Truthy(a) == ~a.nan /\ a.v # 0

\* JavaScript % on integers keeps the sign of the dividend
JsMod(x, m) == IF x >= 0 THEN x % m ELSE -((-x) % m)
NumMod(a, m) == IF a.nan THEN NaN ELSE Num(JsMod(a.v, m))

\* Math.round((num / den) * 100) for num >= 0, den > 0: floor(x + 0.5)
RoundPercent(num, den) == (200 * num.v + den.v) \div (2 * den.v)

---------------------------------------------------------------------------
(* Coordinates and great-circle geometry *)

NoCoord == [none |-> TRUE]
Coord(lat, lng) == [lat |-> lat, lng |-> lng]

\* longitudes (degrees) of the route points on the equator
Lngs == {0, 1, 8}
FinitePoints == { Coord(Num(0), Num(l)) : l \in Lngs }
NaNPoint == Coord(NaN, NaN)
Points == FinitePoints \cup {NaNPoint}

Abs(x) == IF x < 0 THEN -x ELSE x

\* getBearing: (toDeg(atan2(y, x)) + 360) % 360.  For lat1 = lat2 = 0:
\* y = sin(dLon), x = 0, so atan2 is 90, -90 or (dLon = 0) 0 degrees.
getBearing(lat1, lon1, lat2, lon2) ==
    IF lat1.nan \/ lon1.nan \/ lat2.nan \/ lon2.nan THEN NaN
    ELSE LET dLon == lon2.v - lon1.v
             atan2 == IF dLon > 0 THEN 90 ELSE IF dLon < 0 THEN -90 ELSE 0
         IN  Num(JsMod(atan2 + 360, 360))

\* calculateDistance with the sign of the difference in longitude kept
calculateDistanceSigned(lat1, lon1, lat2, lon2) ==
    IF lat1.nan \/ lon1.nan \/ lat2.nan \/ lon2.nan THEN NaN
    ELSE Num(lon2.v - lon1.v)

\* calculateDistance (haversine), in degrees of arc (R*pi/180 km each).
\* For lat1 = lat2 = 0: a = sin^2(dLon/2), c = |dLon|.
calculateDistance(lat1, lon1, lat2, lon2) ==
    IF lat1.nan \/ lon1.nan \/ lat2.nan \/ lon2.nan THEN NaN
    ELSE Num(Abs(lon2.v - lon1.v))

\* default value of the speed parameter of timePerSegment, km/h
SpeedPart000 == 50
SpeedPage == 15
Speed(vt) == IF vt = "part_000" THEN SpeedPart000 ELSE SpeedPage

\* the speed at which one degree of arc takes one tick
TickSpeed == 150

\* timePerSegment: (distance / speed) * 3600 * 1000, in ticks
timePerSegment(lat1, lon1, lat2, lon2, speed) ==
    LET distance == calculateDistance(lat1, lon1, lat2, lon2)
    IN  IF distance.nan THEN NaN ELSE Num((distance.v * TickSpeed) \div speed)

---------------------------------------------------------------------------
(* Time *)

\* values of Date.now() / new Date(), in ticks
Nows == {0, 5}

\* strings the datetime-local field can hold
ValidTimeText == "2025-06-21T12:00"
BadTimeText == "not a date"
CustomTimes == {"", ValidTimeText, BadTimeText}

\* new Date(s).getTime() for a string s: NaN when s does not parse
DateParse(s) == IF s = ValidTimeText THEN Num(100) ELSE NaN

\* useCurrentTime ? new Date() : new Date(customTime || Date.now())
\* (the value is getTime() of the Date; an Invalid Date has getTime() NaN)
StartTime(uct, ct, now) ==
    IF uct THEN Num(now)
    ELSE IF ct # "" THEN DateParse(ct) ELSE Num(now)

---------------------------------------------------------------------------
(* Solar position *)

\* results of getSunPosition / SunCalc.getPosition for finite arguments:
\* azimuth measured from south in (-180, 180] (atan2), altitude in 1/1000 deg.
\* Every azimuth is paired with an altitude between the two horizon tests
\* and one above both; the altitudes on and below the tests come with one
\* azimuth, which does not matter for them.
SunAltitudes == {-900, -833, -500, 0, 500}
SunAzimuthsSouth == {-90, 0, 90, 180}
SunPositions ==
    [azimuth : SunAzimuthsSouth, altitude : {-500, 500}]
        \cup [azimuth : {0}, altitude : SunAltitudes]

\* getSunAzimuth: azimuth ((az * 180 / PI) + 180) % 360, altitude in degrees.
\* Every trigonometric term of the ephemeris is NaN when the date is invalid
\* or a coordinate is not finite.
getSunAzimuth(lat, lon, date, sunPos) ==
    IF lat.nan \/ lon.nan \/ date.nan
    THEN [azimuth |-> NaN, altitude |-> NaN]
    ELSE [azimuth |-> Num(JsMod(sunPos.azimuth + 180, 360)),
          altitude |-> Num(sunPos.altitude)]

---------------------------------------------------------------------------
(* Per-segment classification of the routesfound handler *)

\* const HORIZON_THRESHOLD = -0.833 (part_000), in 1/1000 degree
HORIZON_THRESHOLD == -833
\* the page variant compares sun.altitude > 0
HorizonPage == 0
Horizon(vt) == IF vt = "part_000" THEN HORIZON_THRESHOLD ELSE HorizonPage

\* the instant handed to getSunAzimuth.
\* part_000: dateAtSegment is built BEFORE cumulativeTime += segmentTime;
\* page:     cumulativeTime += segmentTime comes first.
dateAtSegment(vt, startTime, cumulativeTime, segmentTime) ==
    IF vt = "part_000"
    THEN NumAdd(startTime, cumulativeTime)
    ELSE NumAdd(startTime, NumAdd(cumulativeTime, segmentTime))

\* relAngleSigned without the two wrap lines
relAngleNoWrap(azimuth, heading) ==
    NumSub(azimuth, heading)

\* part_000: relAngle = azimuth - heading; if > 180 subtract 360; if < -180 add 360
relAngleSigned(azimuth, heading) ==
    LET r0 == NumSub(azimuth, heading)
        r1 == IF NumGt(r0, Num(180)) THEN NumSub(r0, Num(360)) ELSE r0
    IN  IF NumLt(r1, Num(-180)) THEN NumAdd(r1, Num(360)) ELSE r1

\* page: relAngle = (azimuth - heading + 360) % 360
relAngleModular(azimuth, heading) ==
    NumMod(NumAdd(NumSub(azimuth, heading), Num(360)), 360)

relAngleOf(vt, azimuth, heading) ==
    IF vt = "part_000" THEN relAngleSigned(azimuth, heading)
    ELSE relAngleModular(azimuth, heading)

\* IsRight with the part_000 comparison written >= 0: a sun dead ahead counted right
IsRightInclusive(vt, relAngle) ==
    IF vt = "part_000" THEN ~isNaN(relAngle) /\ relAngle.v >= 0
    ELSE NumLt(relAngle, Num(180))

\* is the sun taken to be on the right?  part_000: relAngle > 0; page: relAngle < 180
IsRight(vt, relAngle) ==
    IF vt = "part_000" THEN NumGt(relAngle, Num(0)) ELSE NumLt(relAngle, Num(180))

\* which tally the segment's time is added to: "right", "left" or "night" (neither)
Classify(vt, sun, relAngle) ==
    IF NumGt(sun.altitude, Num(Horizon(vt)))
    THEN IF IsRight(vt, relAngle) THEN "right" ELSE "left"
    ELSE "night"

\* polyline colour of a class
ColorOf(vt, class) ==
    IF vt = "part_000"
    THEN CASE class = "right" -> "#baffc9"
           [] class = "left"  -> "#ffb3ba"
           [] OTHER           -> "#4444aa"
    ELSE CASE class = "right" -> "#22aa22"
           [] class = "left"  -> "#aa2222"
           [] OTHER           -> "#4444aa"

\* L.polyline([[lat, lng], [lat, lng]]) builds L.LatLng objects, whose
\* constructor throws "Invalid LatLng object" when lat or lng is NaN
PolylineThrows(curr, next) ==
    isNaN(curr.lat) \/ isNaN(curr.lng) \/ isNaN(next.lat) \/ isNaN(next.lng)

\* SegmentPass with the else of the side test lost: a right-sun segment is
\* added to leftSunTime as well
SegmentPassBothTallies(vt, curr, next, startTime, cumulativeTime, leftSunTime, rightSunTime, sunPos) ==
    LET segmentTime == timePerSegment(curr.lat, curr.lng, next.lat, next.lng, Speed(vt))
        date        == dateAtSegment(vt, startTime, cumulativeTime, segmentTime)
        heading     == getBearing(curr.lat, curr.lng, next.lat, next.lng)
        sun         == getSunAzimuth(curr.lat, curr.lng, date, sunPos)
        relAngle    == relAngleOf(vt, sun.azimuth, heading)
        class       == Classify(vt, sun, relAngle)
    IN  [ segmentTime    |-> segmentTime,
          elapsedBefore  |-> cumulativeTime,
          dateAtSegment  |-> date,
          cumulativeTime |-> NumAdd(cumulativeTime, segmentTime),
          heading        |-> heading,
          sun            |-> sun,
          relAngle       |-> relAngle,
          class          |-> class,
          color          |-> ColorOf(vt, class),
          leftSunTime    |-> IF class \in {"left", "right"}
                             THEN NumAdd(leftSunTime, segmentTime)
                             ELSE leftSunTime,
          rightSunTime   |-> IF class = "right" THEN NumAdd(rightSunTime, segmentTime)
                             ELSE rightSunTime ]

\* one pass of the forEach callback for curr = coords[i], next = coords[i+1]
\* (the values computed up to, not including, L.polyline)
SegmentPass(vt, curr, next, startTime, cumulativeTime, leftSunTime, rightSunTime, sunPos) ==
    LET segmentTime == timePerSegment(curr.lat, curr.lng, next.lat, next.lng, Speed(vt))
        date        == dateAtSegment(vt, startTime, cumulativeTime, segmentTime)
        heading     == getBearing(curr.lat, curr.lng, next.lat, next.lng)
        sun         == getSunAzimuth(curr.lat, curr.lng, date, sunPos)
        relAngle    == relAngleOf(vt, sun.azimuth, heading)
        class       == Classify(vt, sun, relAngle)
    IN  [ segmentTime    |-> segmentTime,
          elapsedBefore  |-> cumulativeTime,
          dateAtSegment  |-> date,
          cumulativeTime |-> NumAdd(cumulativeTime, segmentTime),
          heading        |-> heading,
          sun            |-> sun,
          relAngle       |-> relAngle,
          class          |-> class,
          color          |-> ColorOf(vt, class),
          leftSunTime    |-> IF class = "left" THEN NumAdd(leftSunTime, segmentTime)
                             ELSE leftSunTime,
          rightSunTime   |-> IF class = "right" THEN NumAdd(rightSunTime, segmentTime)
                             ELSE rightSunTime ]

---------------------------------------------------------------------------
(* Percentages and the #sunPercent element *)

\* part_000: totalSunTime > 0 ? Math.round((t / totalSunTime) * 100) : 0
\* page:     totalTime ? Math.round((t / totalTime) * 100) : 0
Percent(vt, t, total) ==
    IF vt = "part_000"
    THEN IF NumGt(total, Num(0)) THEN RoundPercent(t, total) ELSE 0
    ELSE IF Truthy(total) THEN RoundPercent(t, total) ELSE 0

\* the seat suggestion without the margin of 5 points
SuggestionNoMargin(leftPercent, rightPercent) ==
    IF leftPercent > rightPercent THEN "Sit on the right side to avoid sun"
    ELSE IF rightPercent > leftPercent THEN "Sit on the left side to avoid sun"
    ELSE "Both sides get similar sun exposure"

\* the seat suggestion of part_000
Suggestion(leftPercent, rightPercent) ==
    IF leftPercent > rightPercent + 5 THEN "Sit on the right side to avoid sun"
    ELSE IF rightPercent > leftPercent + 5 THEN "Sit on the left side to avoid sun"
    ELSE "Both sides get similar sun exposure"

\* the markup present in #sunPercent after mounting (and after resetRoute):
\* "Left: 0% | Right: 0%"
InitialPercent == [kind |-> "plain", left |-> 0, right |-> 0]

\* what the handler writes into #sunPercent
PercentHTML(vt, leftSunTime, rightSunTime) ==
    LET total        == NumAdd(leftSunTime, rightSunTime)
        leftPercent  == Percent(vt, leftSunTime, total)
        rightPercent == Percent(vt, rightSunTime, total)
    IN  IF vt = "part_000"
        THEN IF ~total.nan /\ total.v = 0
             THEN [kind |-> "dark"]
             ELSE [kind |-> "result", left |-> leftPercent, right |-> rightPercent,
                   suggestion |-> Suggestion(leftPercent, rightPercent)]
        ELSE [kind |-> "plain", left |-> leftPercent, right |-> rightPercent]

---------------------------------------------------------------------------
(* State after mounting *)

Variants == {"part_000", "page"}
Idle == [pc |-> "idle"]

\* texts of a location field: empty, blank, a place name
Texts == {"", "  ", "Oslo", "Osaka"}
\* query.trim()
Trim(t) == IF t = "  " THEN "" ELSE t
\* val.length
TextLength(t) == CASE t = "" -> 0 [] t = "  " -> 2 [] t = "Oslo" -> 4 [] t = "Osaka" -> 5

\* A suggestion list is a sequence of places.  The places the geocoder finds
\* for a query are named after it; each carries the coordinate that
\* parseFloat makes of its lat / lon strings.
NoSuggestions == << >>
PlaceOf(q) == [display_name |-> q, coord |-> Coord(Num(0), Num(IF q = "Oslo" THEN 0 ELSE 8))]
ResultsFor(q) == << PlaceOf(q) >>
SuggestionLists == { NoSuggestions } \cup { ResultsFor(q) : q \in {"Oslo", "Osaka"} }

\* debounceTimeouts.current: per field, the timer that is pending (with the
\* val its callback captured) or none
NoTimer == [none |-> TRUE]
Timer(val) == [val |-> val]
Fields == {"start", "end"}

\* a traversal log that is not kept, and the empty log that is kept
NoLog == [kept |-> FALSE, seq |-> << >>]
EmptyLog == [kept |-> TRUE, seq |-> << >>]

\* part_000: the effect on [customTime] replaces an empty customTime by the
\* current local time, a string that parses; page has no such effect
AfterCustomTimeEffect(vt, ct) ==
    IF vt = "part_000" /\ ct = "" THEN ValidTimeText ELSE ct

TypeOK ==
    /\ variant \in Variants
    /\ startText \in Texts /\ endText \in Texts
    /\ startCoords \in Points \cup {NoCoord}
    /\ endCoords \in Points \cup {NoCoord}
    /\ customTime \in CustomTimes
    /\ useCurrentTime \in BOOLEAN
    /\ isLoading \in BOOLEAN
    /\ routeCalculated \in BOOLEAN
    /\ routingControlRef \in 0..(MaxControls + 1)
    /\ startSuggestions \in SuggestionLists
    /\ endSuggestions \in SuggestionLists
    /\ debounceTimeouts \in [Fields -> {NoTimer} \cup { Timer(t) : t \in Texts }]
    /\ searches \subseteq [field : Fields, query : Texts]
    /\ quiet \in [Fields -> BOOLEAN]
    /\ sinceReset \in BOOLEAN

Init ==
    /\ variant \in Variants
    /\ startText = "" /\ endText = ""
    /\ startCoords = NoCoord /\ endCoords = NoCoord
    /\ customTime = AfterCustomTimeEffect(variant, "")
    /\ useCurrentTime = TRUE
    /\ isLoading = FALSE
    /\ error = ""
    /\ routeCalculated = FALSE
    /\ routingControlRef = 0
    /\ controls = << >>
    /\ layers = {}
    /\ sunPercent = InitialPercent
    /\ shownBy = 0
    /\ draw = Idle
    /\ h = Idle
    /\ startSuggestions = NoSuggestions
    /\ endSuggestions = NoSuggestions
    /\ debounceTimeouts = [f \in Fields |-> NoTimer]
    /\ searches = {}
    /\ quiet = [f \in Fields |-> FALSE]
    /\ sinceReset = FALSE
    /\ runs = NoLog

---------------------------------------------------------------------------
(* The routesfound handler: control.on("routesfound", (e) => ...) *)

\* a segment not yet processed
NoSeg == [none |-> TRUE]

\* a routesfound handler is executing (handlers run to completion: nothing
\* else happens meanwhile)
Running == h.pc = "forEach"

\* Frame with the traversal begun at the second coordinate
FrameFromSecond(pc, c, routes, startTime) ==
    [ pc             |-> pc,
      ctl            |-> c,
      routes         |-> routes,
      coords         |-> IF routes = << >> THEN << >> ELSE routes[1],
      i              |-> 2,
      startTime      |-> startTime,
      cumulativeTime |-> Num(0),
      leftSunTime    |-> Num(0),
      rightSunTime   |-> Num(0),
      nightTime      |-> Num(0),
      last           |-> NoSeg ]

\* Frame with the tallies declared outside the handler: a traversal starts
\* from the tallies the previous one ended with
FrameKeepsTallies(pc, c, routes, startTime) ==
    [ pc             |-> pc,
      ctl            |-> c,
      routes         |-> routes,
      coords         |-> IF routes = << >> THEN << >> ELSE routes[1],
      i              |-> 1,
      startTime      |-> startTime,
      cumulativeTime |-> Num(0),
      leftSunTime    |-> IF h.pc = "idle" THEN Num(0) ELSE h.leftSunTime,
      rightSunTime   |-> IF h.pc = "idle" THEN Num(0) ELSE h.rightSunTime,
      nightTime      |-> Num(0),
      last           |-> NoSeg ]

\* The handler invocation: its event, its locals and where it stands.
\* pc is "forEach" while the traversal runs; afterwards the record is kept as
\* the history of the last invocation, with pc
\*   "returned"  the handler returned early after setError,
\*   "threw"     an exception ended it (caught by part_000, uncaught in page),
\*   "done"      it ran to its end.
\* nightTime (the time of the segments added to neither tally) and last (the
\* values of the last pass) are history, not locals of the source.
Frame(pc, c, routes, startTime) ==
    [ pc             |-> pc,
      ctl            |-> c,
      routes         |-> routes,
      coords         |-> IF routes = << >> THEN << >> ELSE routes[1],
      i              |-> 1,
      startTime      |-> startTime,
      cumulativeTime |-> Num(0),
      leftSunTime    |-> Num(0),
      rightSunTime   |-> Num(0),
      nightTime      |-> Num(0),
      last           |-> NoSeg ]

\* The log of traversals (history).  While it is kept, `runs` is the sequence
\* of the traversals started so far, the last one being the current one:
\* inputs (coords, startTime), per segment the instant and place handed to the
\* ephemeris, its answer, the class and the duration, and the final result.
LogStart(log, c, coords, startTime) ==
    IF ~log.kept THEN log
    ELSE [log EXCEPT !.seq =
              Append(@, [ctl |-> c, coords |-> coords, startTime |-> startTime,
                         segs |-> << >>, done |-> FALSE,
                         leftSunTime |-> Num(0), rightSunTime |-> Num(0),
                         html |-> InitialPercent])]

LogSegment(log, curr, sunPos, r) ==
    IF ~log.kept THEN log
    ELSE [log EXCEPT !.seq[Len(log.seq)].segs =
              Append(@, [date |-> r.dateAtSegment, at |-> curr, sunPos |-> sunPos,
                         class |-> r.class, segmentTime |-> r.segmentTime])]

LogFinish(log, leftSunTime, rightSunTime, html) ==
    IF ~log.kept THEN log
    ELSE [log EXCEPT !.seq[Len(log.seq)].done = TRUE,
                     !.seq[Len(log.seq)].leftSunTime = leftSunTime,
                     !.seq[Len(log.seq)].rightSunTime = rightSunTime,
                     !.seq[Len(log.seq)].html = html]

\* Delivery of the routing response of control c: the handler runs up to the
\* forEach.  `routes` is e.routes, `now` the value of new Date().
RoutesFound(c, routes, now) ==
    /\ ~Running
    /\ c \in DOMAIN controls
    /\ controls[c].pending
    /\ controls' = [controls EXCEPT ![c].pending = FALSE]
    /\ LET startTime == StartTime(controls[c].useCurrentTime, controls[c].customTime, now)
       IN  IF variant = "part_000"
           THEN IF routes = << >>
                THEN /\ error' = "No route found between the selected locations"
                     /\ h' = Frame("returned", c, routes, startTime)
                ELSE IF Len(routes[1]) < 2
                THEN /\ error' = "Route too short to analyze"
                     /\ h' = Frame("returned", c, routes, startTime)
                ELSE /\ error' = error
                     /\ h' = Frame("forEach", c, routes, startTime)
           ELSE IF routes = << >>
                \* e.routes[0] is undefined: TypeError, nothing catches it
                THEN /\ error' = error
                     /\ h' = Frame("threw", c, routes, startTime)
                ELSE /\ error' = error
                     /\ h' = Frame("forEach", c, routes, startTime)
    /\ runs' = IF h'.pc = "forEach" THEN LogStart(runs, c, h'.coords, h'.startTime)
               ELSE runs
    /\ UNCHANGED << variant, startText, endText, startCoords, endCoords, customTime,
                    useCurrentTime, isLoading, routeCalculated, routingControlRef,
                    layers, sunPercent, shownBy, draw,
                    formVars, sinceReset >>

\* One pass of coords.forEach for an element that is not the last one.
\* `sunPos` is what the ephemeris returns for (dateAtSegment, curr).
ForEachStep(sunPos) ==
    /\ h.pc = "forEach"
    /\ h.i < Len(h.coords)
    /\ LET curr == h.coords[h.i]
           next == h.coords[h.i + 1]
           r    == SegmentPass(variant, curr, next, h.startTime, h.cumulativeTime,
                               h.leftSunTime, h.rightSunTime, sunPos)
       IN  IF PolylineThrows(curr, next)
           THEN \* part_000: catch (routeError) { setError(...) }; page: uncaught
                /\ h' = [h EXCEPT !.pc = "threw"]
                /\ error' = IF variant = "part_000" THEN "Failed to process route data"
                            ELSE error
                /\ layers' = layers
                /\ runs' = runs
           ELSE /\ h' = [h EXCEPT !.i = h.i + 1,
                                  !.cumulativeTime = r.cumulativeTime,
                                  !.leftSunTime = r.leftSunTime,
                                  !.rightSunTime = r.rightSunTime,
                                  !.nightTime = IF r.class = "night"
                                                THEN NumAdd(h.nightTime, r.segmentTime)
                                                ELSE h.nightTime,
                                  !.last = r]
                /\ error' = error
                /\ layers' = layers \cup { [ctl |-> h.ctl, i |-> h.i, from |-> curr,
                                             to |-> next, color |-> r.color] }
                /\ runs' = LogSegment(runs, curr, sunPos, r)
    /\ UNCHANGED << variant, startText, endText, startCoords, endCoords, customTime,
                    useCurrentTime, isLoading, routeCalculated, routingControlRef,
                    controls, sunPercent, shownBy, draw,
                    formVars, sinceReset >>

\* Finish with the percentages taken one pass early, before the last
\* segment has been processed
FinishBeforeLast ==
    /\ h.pc = "forEach"
    /\ h.i >= Len(h.coords) - 1
    /\ sunPercent' = PercentHTML(variant, h.leftSunTime, h.rightSunTime)
    /\ shownBy' = h.ctl
    /\ routeCalculated' = IF variant = "part_000" THEN TRUE ELSE routeCalculated
    /\ runs' = LogFinish(runs, h.leftSunTime, h.rightSunTime, sunPercent')
    /\ h' = [h EXCEPT !.pc = "done"]
    /\ UNCHANGED << variant, startText, endText, startCoords, endCoords, customTime,
                    useCurrentTime, isLoading, error, routingControlRef, controls,
                    layers, draw,
                    formVars, sinceReset >>

\* After the forEach: percentages, #sunPercent, (part_000) setRouteCalculated(true)
Finish ==
    /\ h.pc = "forEach"
    /\ h.i >= Len(h.coords)
    /\ sunPercent' = PercentHTML(variant, h.leftSunTime, h.rightSunTime)
    /\ shownBy' = h.ctl
    /\ routeCalculated' = IF variant = "part_000" THEN TRUE ELSE routeCalculated
    /\ runs' = LogFinish(runs, h.leftSunTime, h.rightSunTime, sunPercent')
    /\ h' = [h EXCEPT !.pc = "done"]
    /\ UNCHANGED << variant, startText, endText, startCoords, endCoords, customTime,
                    useCurrentTime, isLoading, error, routingControlRef, controls,
                    layers, draw,
                    formVars, sinceReset >>

\* control.on("routingerror", ...)
RoutingError(c) ==
    /\ ~Running
    /\ c \in DOMAIN controls
    /\ controls[c].pending
    /\ controls' = [controls EXCEPT ![c].pending = FALSE]
    /\ error' = IF variant = "part_000"
                THEN "Failed to calculate route. Please try different locations or check your internet connection."
                ELSE "Failed to calculate route. Please try different locations."
    /\ UNCHANGED << variant, startText, endText, startCoords, endCoords, customTime,
                    useCurrentTime, isLoading, routeCalculated, routingControlRef,
                    layers, sunPercent, shownBy, draw, h,
                    formVars, sinceReset, runs >>

---------------------------------------------------------------------------
(* drawRouteSun *)

HasNaN(c) == isNaN(c.lat) \/ isNaN(c.lng)

\* L.Routing || window.L.Routing when drawRouteSun reaches Routing.control.
\* part_000 loads the plugin from a script element and tests for it on every
\* call; page imports it statically.
RoutingLoaded(vt) == IF vt = "part_000" THEN BOOLEAN ELSE { TRUE }

\* drawRouteSun without its finally block: isLoading is reset only at the end
\* of the try block
ConcludeNoFinally(d, err) ==
    /\ draw' = Idle
    /\ IF d.start = NoCoord \/ d.end = NoCoord
       THEN /\ error' = "Please select both start and end locations"
            /\ UNCHANGED << controls, isLoading >>
            /\ routingControlRef' = 0
       ELSE IF HasNaN(d.start) \/ HasNaN(d.end)
       THEN /\ error' = "Invalid coordinates. Please select valid locations."
            /\ UNCHANGED << controls, isLoading >>
            /\ routingControlRef' = 0
       ELSE /\ Len(controls) < MaxControls
            /\ error' = err
            /\ isLoading' = FALSE
            /\ controls' = Append(controls, [pending        |-> TRUE,
                                             waypoints      |-> << d.start, d.end >>,
                                             useCurrentTime |-> d.useCurrentTime,
                                             customTime     |-> d.customTime])
            /\ routingControlRef' = Len(controls) + 1

\* The part of drawRouteSun after both locations have been looked up:
\* validation, Routing.control, finally.  `d` holds the invocation's locals,
\* `err` is the error text in force if no new one is set.
\* At most MaxControls routing controls are created: once that many exist,
\* only the invocations that create none are followed.
Conclude(d, err) ==
    /\ isLoading' = FALSE
    /\ draw' = Idle
    /\ IF d.start = NoCoord \/ d.end = NoCoord
       THEN /\ error' = "Please select both start and end locations"
            /\ UNCHANGED controls
            /\ routingControlRef' = 0
       ELSE IF HasNaN(d.start) \/ HasNaN(d.end)
       THEN \* part_000 checks isNaN itself; in page L.latLng throws and the
            \* catch block shows err.message
            /\ error' = IF variant = "part_000"
                        THEN "Invalid coordinates. Please select valid locations."
                        ELSE "Invalid LatLng object: (NaN, NaN)"
            /\ UNCHANGED controls
            /\ routingControlRef' = 0
       ELSE \E routing \in RoutingLoaded(variant) :
            IF ~routing
            THEN /\ error' = "Routing functionality not available. Please refresh the page."
                 /\ UNCHANGED controls
                 /\ routingControlRef' = 0
            ELSE /\ Len(controls) < MaxControls
                 /\ error' = err
                 /\ controls' = Append(controls, [pending        |-> TRUE,
                                                  waypoints      |-> << d.start, d.end >>,
                                                  useCurrentTime |-> d.useCurrentTime,
                                                  customTime     |-> d.customTime])
                 /\ routingControlRef' = Len(controls) + 1

\* the second lookup: if (!end && endText.trim()) await searchLocation(endText)
LookupEnd(d, err) ==
    IF d.end = NoCoord /\ Trim(d.endText) # ""
    THEN /\ draw' = [d EXCEPT !.pc = "awaitEnd"]
         /\ isLoading' = TRUE
         /\ error' = err
         /\ routingControlRef' = 0
         /\ UNCHANGED controls
    ELSE Conclude(d, err)

\* Click on the Draw button: drawRouteSun up to its first real suspension.
DrawRouteSun ==
    /\ ~Running
    /\ draw.pc = "idle"
    /\ ~isLoading
    /\ variant = "part_000" => ~routeCalculated
    /\ layers' = {}
    /\ sinceReset' = FALSE
    /\ LET d == [ pc             |-> "awaitStart",
                  start          |-> startCoords,
                  end            |-> endCoords,
                  startText      |-> startText,
                  endText        |-> endText,
                  useCurrentTime |-> useCurrentTime,
                  customTime     |-> customTime ]
       IN  IF d.start = NoCoord /\ Trim(d.startText) # ""
           THEN /\ draw' = d
                /\ isLoading' = TRUE
                /\ error' = ""
                /\ routingControlRef' = 0
                /\ UNCHANGED controls
           ELSE LookupEnd(d, "")
    /\ UNCHANGED << variant, startText, endText, startCoords, endCoords, customTime,
                    useCurrentTime, routeCalculated, sunPercent, shownBy, h,
                    formVars, runs >>

\* await searchLocation(startText) returns: `res` is results[0] parsed, or
\* NoCoord when the list is empty
GeocodeStart(res) ==
    /\ ~Running
    /\ draw.pc = "awaitStart"
    /\ startCoords' = IF res = NoCoord THEN startCoords ELSE res
    /\ LookupEnd([draw EXCEPT !.start = res], error)
    /\ UNCHANGED << variant, startText, endText, endCoords, customTime, useCurrentTime,
                    routeCalculated, layers, sunPercent, shownBy, h,
                    formVars, sinceReset, runs >>

\* await searchLocation(endText) returns
GeocodeEnd(res) ==
    /\ ~Running
    /\ draw.pc = "awaitEnd"
    /\ endCoords' = IF res = NoCoord THEN endCoords ELSE res
    /\ Conclude([draw EXCEPT !.end = res], error)
    /\ UNCHANGED << variant, startText, endText, startCoords, customTime, useCurrentTime,
                    routeCalculated, layers, sunPercent, shownBy, h,
                    formVars, sinceReset, runs >>

---------------------------------------------------------------------------
(* resetRoute and the form *)

\* the form (fields, time controls, Draw button) is rendered; part_000 shows the
\* "Try Again" button instead once routeCalculated
FormShown == variant = "part_000" => ~routeCalculated

resetRoute ==
    /\ ~Running
    /\ variant = "part_000"
    /\ routeCalculated
    /\ routeCalculated' = FALSE
    /\ startText' = "" /\ endText' = ""
    /\ startCoords' = NoCoord /\ endCoords' = NoCoord
    /\ error' = ""
    /\ routingControlRef' = 0
    /\ layers' = {}
    /\ sunPercent' = InitialPercent
    /\ shownBy' = 0
    /\ startSuggestions' = NoSuggestions
    /\ endSuggestions' = NoSuggestions
    /\ quiet' = [f \in Fields |-> FALSE]
    /\ sinceReset' = TRUE
    /\ UNCHANGED << variant, customTime, useCurrentTime, isLoading, controls, draw, h,
                    debounceTimeouts, searches, runs >>

\* setSuggestions / debounce part of handleStartChange and handleEndChange
\* for field f, whose list is `list`:
\*   part_000: clearTimeout of the pending timer; val.length > 2 arms a new
\*             300 ms timer, otherwise the list is emptied;
\*   page:     val.length > 2 starts the search at once (the list is set when
\*             it returns), otherwise the list is emptied.
\* The result is [list, timers, searches] after the handler.
AfterChange(f, val, list) ==
    IF TextLength(val) > 2
    THEN IF variant = "part_000"
         THEN [list |-> list,
               timers |-> [debounceTimeouts EXCEPT ![f] = Timer(val)],
               searches |-> searches]
         ELSE [list |-> list,
               timers |-> debounceTimeouts,
               searches |-> searches \cup { [field |-> f, query |-> val] }]
    ELSE [list |-> NoSuggestions,
          timers |-> IF variant = "part_000"
                     THEN [debounceTimeouts EXCEPT ![f] = NoTimer]
                     ELSE debounceTimeouts,
          searches |-> searches]

handleStartChange(val) ==
    /\ ~Running
    /\ FormShown
    /\ startText' = val
    /\ LET r == AfterChange("start", val, startSuggestions)
       IN  /\ startSuggestions' = r.list
           /\ debounceTimeouts' = r.timers
           /\ searches' = r.searches
    /\ quiet' = [quiet EXCEPT !["start"] = (TextLength(val) <= 2)]
    /\ sinceReset' = FALSE
    /\ UNCHANGED << variant, endText, startCoords, endCoords, customTime, useCurrentTime,
                    isLoading, error, routeCalculated, routingControlRef, controls,
                    layers, sunPercent, shownBy, draw, h,
                    endSuggestions, runs >>

handleEndChange(val) ==
    /\ ~Running
    /\ FormShown
    /\ endText' = val
    /\ LET r == AfterChange("end", val, endSuggestions)
       IN  /\ endSuggestions' = r.list
           /\ debounceTimeouts' = r.timers
           /\ searches' = r.searches
    /\ quiet' = [quiet EXCEPT !["end"] = (TextLength(val) <= 2)]
    /\ sinceReset' = FALSE
    /\ UNCHANGED << variant, startText, startCoords, endCoords, customTime, useCurrentTime,
                    isLoading, error, routeCalculated, routingControlRef, controls,
                    layers, sunPercent, shownBy, draw, h,
                    startSuggestions, runs >>

\* the debounce timer of field f fires (part_000): its callback calls
\* searchLocation(val), which suspends at the fetch
DebounceFire(f) ==
    /\ ~Running
    /\ debounceTimeouts[f] # NoTimer
    /\ debounceTimeouts' = [debounceTimeouts EXCEPT ![f] = NoTimer]
    /\ searches' = searches \cup { [field |-> f, query |-> debounceTimeouts[f].val] }
    /\ UNCHANGED << variant, startText, endText, startCoords, endCoords, customTime,
                    useCurrentTime, isLoading, error, routeCalculated, routingControlRef,
                    controls, layers, sunPercent, shownBy, draw, h,
                    startSuggestions, endSuggestions, quiet, sinceReset, runs >>

\* searchLocation(query) of a suggestion search returns: the places found, or
\* [] (nothing found, a failed or timed-out fetch, a blank query), and the
\* caller stores it with setStartSuggestions / setEndSuggestions
SearchReturns(f, query, found) ==
    /\ ~Running
    /\ [field |-> f, query |-> query] \in searches
    /\ searches' = searches \ { [field |-> f, query |-> query] }
    /\ LET results == IF found /\ Trim(query) # "" THEN ResultsFor(query)
                      ELSE NoSuggestions
       IN  IF f = "start"
           THEN startSuggestions' = results /\ UNCHANGED endSuggestions
           ELSE endSuggestions' = results /\ UNCHANGED startSuggestions
    /\ UNCHANGED << variant, startText, endText, startCoords, endCoords, customTime,
                    useCurrentTime, isLoading, error, routeCalculated, routingControlRef,
                    controls, layers, sunPercent, shownBy, draw, h,
                    debounceTimeouts, quiet, sinceReset, runs >>

\* click on entry k of the start suggestion list: its display_name becomes the
\* text, its lat / lon the coordinates
selectStart(k) ==
    /\ ~Running
    /\ FormShown
    /\ k \in DOMAIN startSuggestions
    /\ startText' = startSuggestions[k].display_name
    /\ startCoords' = startSuggestions[k].coord
    /\ startSuggestions' = NoSuggestions
    /\ quiet' = [quiet EXCEPT !["start"] = TRUE]
    /\ sinceReset' = FALSE
    /\ UNCHANGED << variant, endText, endCoords, customTime, useCurrentTime,
                    isLoading, error, routeCalculated, routingControlRef, controls,
                    layers, sunPercent, shownBy, draw, h,
                    endSuggestions, debounceTimeouts, searches, runs >>

selectEnd(k) ==
    /\ ~Running
    /\ FormShown
    /\ k \in DOMAIN endSuggestions
    /\ endText' = endSuggestions[k].display_name
    /\ endCoords' = endSuggestions[k].coord
    /\ endSuggestions' = NoSuggestions
    /\ quiet' = [quiet EXCEPT !["end"] = TRUE]
    /\ sinceReset' = FALSE
    /\ UNCHANGED << variant, startText, startCoords, customTime, useCurrentTime,
                    isLoading, error, routeCalculated, routingControlRef, controls,
                    layers, sunPercent, shownBy, draw, h,
                    startSuggestions, debounceTimeouts, searches, runs >>

setUseCurrentTime(b) ==
    /\ ~Running
    /\ FormShown
    /\ b # useCurrentTime
    /\ useCurrentTime' = b
    /\ UNCHANGED << variant, startText, endText, startCoords, endCoords, customTime,
                    isLoading, error, routeCalculated, routingControlRef, controls,
                    layers, sunPercent, shownBy, draw, h,
                    formVars, sinceReset, runs >>

\* the datetime-local field is disabled while useCurrentTime is checked
setCustomTime(val) ==
    /\ ~Running
    /\ FormShown
    /\ ~useCurrentTime
    /\ customTime' = AfterCustomTimeEffect(variant, val)
    /\ customTime' # customTime
    /\ UNCHANGED << variant, startText, endText, startCoords, endCoords, useCurrentTime,
                    isLoading, error, routeCalculated, routingControlRef, controls,
                    layers, sunPercent, shownBy, draw, h,
                    formVars, sinceReset, runs >>

\* the close button of the error banner
dismissError ==
    /\ ~Running
    /\ error # ""
    /\ error' = ""
    /\ UNCHANGED << variant, startText, endText, startCoords, endCoords, customTime,
                    useCurrentTime, isLoading, routeCalculated, routingControlRef,
                    controls, layers, sunPercent, shownBy, draw, h,
                    formVars, sinceReset, runs >>

---------------------------------------------------------------------------
(* Specifications *)

\* the point of the equator at longitude l
Pt(l) == Coord(Num(0), Num(l))

\* sequences over S of length 0..n
SeqsUpTo(S, n) == UNION { [1..k -> S] : k \in 0..n }

\* --- requests, responses and reset, with a small choice of inputs ---

\* e.routes of the responses: no route, or one route of 1..3 coordinates
AppRoutes ==
    { << >>,
      << << Pt(0) >> >>,
      << << Pt(0), Pt(1) >> >>,
      << << Pt(0), Pt(1), NaNPoint >> >> }
\* ephemeris results: sun up in the east, sun down
AppSun == { [azimuth |-> -90, altitude |-> 500], [azimuth |-> 0, altitude |-> -900] }
\* texts typed into the location fields, first results of the lookups of
\* drawRouteSun
AppTexts == { "", "Oslo" }
AppGeoResults == { NoCoord, Pt(0) }

Next ==
    \/ DrawRouteSun
    \/ \E res \in AppGeoResults : GeocodeStart(res)
    \/ \E c \in 1..MaxControls, routes \in AppRoutes, now \in Nows : RoutesFound(c, routes, now)
    \/ \E sunPos \in AppSun : ForEachStep(sunPos)
    \/ Finish
    \/ \E c \in 1..MaxControls : RoutingError(c)
    \/ resetRoute
    \/ \E res \in AppGeoResults : GeocodeEnd(res)
    \/ \E val \in AppTexts : handleStartChange(val)
    \/ \E val \in AppTexts : handleEndChange(val)
    \/ dismissError

Spec == Init /\ [][Next]_vars

\* --- the routesfound handler on every route of up to MaxRoute coordinates ---

\* the state once both locations are chosen, the time options are set and
\* drawRouteSun has attached routing control 1
InitSeg ==
    /\ variant \in Variants
    /\ startText = "Oslo" /\ endText = "Oslo"
    /\ startCoords = Pt(0) /\ endCoords = Pt(8)
    /\ \/ /\ useCurrentTime = TRUE
          /\ customTime = AfterCustomTimeEffect(variant, "")
       \/ /\ useCurrentTime = FALSE
          /\ customTime \in { AfterCustomTimeEffect(variant, ct) : ct \in CustomTimes }
    /\ isLoading = FALSE
    /\ error = ""
    /\ routeCalculated = FALSE
    /\ routingControlRef = 1
    /\ controls = << [pending |-> TRUE, waypoints |-> << startCoords, endCoords >>,
                      useCurrentTime |-> useCurrentTime, customTime |-> customTime] >>
    /\ layers = {}
    /\ sunPercent = InitialPercent
    /\ shownBy = 0
    /\ draw = Idle
    /\ h = Idle
    /\ startSuggestions = NoSuggestions
    /\ endSuggestions = NoSuggestions
    /\ debounceTimeouts = [f \in Fields |-> NoTimer]
    /\ searches = {}
    /\ quiet = [f \in Fields |-> FALSE]
    /\ sinceReset = FALSE
    /\ runs = NoLog

\* the value of new Date() when the response arrives
SegNows == {5}

Routes == SeqsUpTo(Points, MaxRoute)
RouteResponses == { << >> } \cup { << r >> : r \in Routes }

NextSeg ==
    \/ \E routes \in RouteResponses, now \in SegNows : RoutesFound(1, routes, now)
    \/ \E sunPos \in SunPositions : ForEachStep(sunPos)
    \/ Finish
    \/ RoutingError(1)

SegSpec == InitSeg /\ [][NextSeg]_vars

\* --- the traversal of every route, with the sun up in the east or down ---

NextTraversal ==
    \/ \E routes \in RouteResponses, now \in SegNows : RoutesFound(1, routes, now)
    \/ \E sunPos \in AppSun : ForEachStep(sunPos)
    \/ Finish
    \/ RoutingError(1)

TraversalSpec == InitSeg /\ [][NextTraversal]_vars

\* --- repeated traversals, with the ephemeris a function of its arguments ---

\* getSunPosition / SunCalc.getPosition keep no state: asked again for the
\* same instant and place they give the same answer
EphemerisAllows(sunPos) ==
    /\ h.pc = "forEach"
    /\ h.i < Len(h.coords)
    /\ LET curr == h.coords[h.i]
           next == h.coords[h.i + 1]
           segmentTime == timePerSegment(curr.lat, curr.lng, next.lat, next.lng, Speed(variant))
           date == dateAtSegment(variant, h.startTime, h.cumulativeTime, segmentTime)
       IN  \A a \in 1..Len(runs.seq) : \A k \in 1..Len(runs.seq[a].segs) :
               (runs.seq[a].segs[k].date = date /\ runs.seq[a].segs[k].at = curr)
                   => runs.seq[a].segs[k].sunPos = sunPos

\* the time options a request can have captured: current time, or a custom
\* time that parses
DetClosures == { [pending |-> TRUE, waypoints |-> << Pt(0), Pt(8) >>,
                  useCurrentTime |-> uct, customTime |-> ValidTimeText] : uct \in BOOLEAN }

\* the state once MaxControls requests have been made one after another, none
\* answered yet; the traversals are logged
InitDet ==
    /\ variant \in Variants
    /\ startText = "Oslo" /\ endText = "Oslo"
    /\ startCoords = Pt(0) /\ endCoords = Pt(8)
    /\ controls \in [1..MaxControls -> DetClosures]
    /\ useCurrentTime = controls[MaxControls].useCurrentTime
    /\ customTime = ValidTimeText
    /\ isLoading = FALSE
    /\ error = ""
    /\ routeCalculated = FALSE
    /\ routingControlRef = MaxControls
    /\ layers = {}
    /\ sunPercent = InitialPercent
    /\ shownBy = 0
    /\ draw = Idle
    /\ h = Idle
    /\ startSuggestions = NoSuggestions
    /\ endSuggestions = NoSuggestions
    /\ debounceTimeouts = [f \in Fields |-> NoTimer]
    /\ searches = {}
    /\ quiet = [f \in Fields |-> FALSE]
    /\ sinceReset = FALSE
    /\ runs = EmptyLog

\* the routes of the responses: out and back, and out only
DetRoutes == { << << Pt(0), Pt(1), Pt(0) >> >>, << << Pt(0), Pt(1) >> >> }

NextDet ==
    \/ \E c \in 1..MaxControls, routes \in DetRoutes, now \in Nows : RoutesFound(c, routes, now)
    \/ \E sunPos \in AppSun : EphemerisAllows(sunPos) /\ ForEachStep(sunPos)
    \/ Finish
    \/ \E c \in 1..MaxControls : RoutingError(c)

DetSpec == InitDet /\ [][NextDet]_vars

\* --- one segment, the sun all around the horizon ---

\* ephemeris results: the sun every 45 degrees of azimuth (measured from
\* south, as atan2 gives it), above both horizon tests
AngleSun == [azimuth : {-135, -90, -45, 0, 45, 90, 135, 180}, altitude : {500}]

\* routes of one segment: eastward, westward, of no length
AngleRoutes == { << << a, b >> >> : a, b \in FinitePoints }

NextAngle ==
    \/ \E routes \in AngleRoutes, now \in SegNows : RoutesFound(1, routes, now)
    \/ \E sunPos \in AngleSun : ForEachStep(sunPos)
    \/ Finish
    \/ RoutingError(1)

AngleSpec == InitSeg /\ [][NextAngle]_vars

\* --- the location fields and their suggestion lists ---

\* texts typed into a field: nothing (length 0), two place names (length > 2)
FormTexts == { "", "Oslo", "Osaka" }

NextForm ==
    \/ \E val \in FormTexts : handleStartChange(val)
    \/ \E val \in FormTexts : handleEndChange(val)
    \/ \E f \in Fields : DebounceFire(f)
    \/ \E f \in Fields, query \in FormTexts, found \in BOOLEAN : SearchReturns(f, query, found)
    \/ \E k \in 1..1 : selectStart(k)
    \/ \E k \in 1..1 : selectEnd(k)

FormSpec == Init /\ [][NextForm]_vars

\* --- selecting suggestions, editing the fields, drawing ---

\* what a lookup of drawRouteSun can find for a text: nothing, or the first
\* place the geocoder has under that name
LookupResults(text) ==
    IF Trim(text) = "" THEN { NoCoord } ELSE { NoCoord, PlaceOf(text).coord }

\* texts typed into the start field: two place names; into the end field: one
SelectTexts == { "Oslo", "Osaka" }
SelectEndTexts == { "Osaka" }

NextSelect ==
    \/ \E val \in SelectTexts : handleStartChange(val)
    \/ \E val \in SelectEndTexts : handleEndChange(val)
    \/ \E f \in Fields : DebounceFire(f)
    \/ \E f \in Fields, query \in SelectTexts : SearchReturns(f, query, TRUE)
    \/ \E k \in 1..1 : selectStart(k)
    \/ \E k \in 1..1 : selectEnd(k)
    \/ DrawRouteSun
    \/ draw.pc = "awaitStart" /\ \E res \in LookupResults(draw.startText) : GeocodeStart(res)
    \/ draw.pc = "awaitEnd" /\ \E res \in LookupResults(draw.endText) : GeocodeEnd(res)

SelectSpec == Init /\ [][NextSelect]_vars

\* --- drawRouteSun on every kind of field content and lookup result ---

\* texts typed into a field: nothing, blanks, a place name
DrawTexts == { "", "  ", "Oslo" }
\* first result of a lookup: none, a place, a place whose lat / lon strings
\* parseFloat turns into NaN
DrawGeoResults == { NoCoord, Pt(0), NaNPoint }
\* e.routes of the responses: one route of one segment
DrawRoutes == { << << Pt(0), Pt(1) >> >> }
\* ephemeris results: sun up in the east
DrawSun == { [azimuth |-> -90, altitude |-> 500] }

\* an await searchLocation(...) of drawRouteSun resumes
GeocodeReturns ==
    \/ \E res \in DrawGeoResults : GeocodeStart(res)
    \/ \E res \in DrawGeoResults : GeocodeEnd(res)

\* the routesfound handler in progress runs on
HandlerRuns ==
    \/ \E sunPos \in DrawSun : ForEachStep(sunPos)
    \/ Finish

NextDraw ==
    \/ \E val \in DrawTexts : handleStartChange(val)
    \/ \E val \in DrawTexts : handleEndChange(val)
    \/ DrawRouteSun
    \/ GeocodeReturns
    \/ \E c \in 1..MaxControls, routes \in DrawRoutes, now \in SegNows : RoutesFound(c, routes, now)
    \/ HandlerRuns
    \/ \E c \in 1..MaxControls : RoutingError(c)
    \/ resetRoute
    \/ dismissError

DrawSpec == Init /\ [][NextDraw]_vars

\* --- drawRouteSun alone: the requests fail or stay unanswered ---

NextLoad ==
    \/ \E val \in DrawTexts : handleStartChange(val)
    \/ \E val \in DrawTexts : handleEndChange(val)
    \/ DrawRouteSun
    \/ GeocodeReturns
    \/ \E c \in 1..MaxControls : RoutingError(c)
    \/ dismissError

\* searchLocation always returns: part_000 aborts the fetch after 5 s, and a
\* fetch settles
DrawFair == Init /\ [][NextLoad]_vars /\ WF_vars(GeocodeReturns)

\* --- the seat suggestion on routes with close and distant tallies ---

\* lengths of the segments, in degrees of longitude: tallies of 9 : 10 give
\* 47% / 53%, of 10 : 11 give 48% / 52%, of 1 : 9 give 10% / 90%
SeatSteps == { 1, 9, 10, 11 }

RECURSIVE SumTo(_, _)
SumTo(steps, k) == IF k = 0 THEN 0 ELSE steps[k] + SumTo(steps, k - 1)

\* the eastward route along the equator with these segment lengths
RouteOfSteps(steps) == [ k \in 1..(Len(steps) + 1) |-> Pt(SumTo(steps, k - 1)) ]

\* e.routes of the responses: one route of MaxRoute coordinates
SeatRoutes == { << RouteOfSteps(steps) >> : steps \in [1..(MaxRoute - 1) -> SeatSteps] }

\* ephemeris results: sun up in the east, up in the west, down
SeatSun == { [azimuth |-> -90, altitude |-> 500], [azimuth |-> 90, altitude |-> 500],
             [azimuth |-> 0, altitude |-> -900] }

NextSeat ==
    \/ \E routes \in SeatRoutes, now \in SegNows : RoutesFound(1, routes, now)
    \/ \E sunPos \in SeatSun : ForEachStep(sunPos)
    \/ Finish
    \/ RoutingError(1)

SeatSpec == InitSeg /\ [][NextSeat]_vars

---------------------------------------------------------------------------
(* Properties *)

\* the polylines drawn by the handler of control c that are on the map
LayersOf(c) == { l \in layers : l.ctl = c }

\* a handler invocation has ended, one way or another
Ended == h.pc \in {"returned", "threw", "done"}

\* every coordinate of the route is finite
FiniteRoute(coords) == \A k \in 1..Len(coords) : ~HasNaN(coords[k])

\* a route the segmenter accepts: at least 2 coordinates, all finite
ValidRoute(coords) == Len(coords) >= 2 /\ FiniteRoute(coords)

\* the sum of the durations of the first k segments of coords, in ticks
RECURSIVE Elapsed(_, _, _)
Elapsed(vt, coords, k) ==
    IF k = 0 THEN Num(0)
    ELSE NumAdd(Elapsed(vt, coords, k - 1),
                timePerSegment(coords[k].lat, coords[k].lng,
                               coords[k + 1].lat, coords[k + 1].lng, Speed(vt)))

\* the handler of h.ctl left nothing on the map and did not write #sunPercent
NoOutput == LayersOf(h.ctl) = {} /\ shownBy # h.ctl

\* C1: a routing result of fewer than 2 coordinates makes the handler fail:
\* an error is shown, no segment is drawn and #sunPercent is not written
\* (in both variants).
C1_ShortRouteFails ==
    (Ended /\ h.routes # << >> /\ Len(h.coords) < 2) => (error # "" /\ NoOutput)

\* C2: segment i is sampled at startTime + the durations of segments 0..i-1,
\* that is before the clock is advanced by its own duration (in both variants).
C2_SampledAtSegmentStart ==
    (h.pc \in {"forEach", "done"} /\ h.last # NoSeg)
        => h.last.dateAtSegment = NumAdd(h.startTime, Elapsed(variant, h.coords, h.i - 2))

\* C3: when the total sun time is positive the two percentages shown add up
\* to exactly 100.
C3_PercentagesSumTo100 ==
    (h.pc = "done" /\ NumGt(NumAdd(h.leftSunTime, h.rightSunTime), Num(0)))
        => sunPercent.left + sunPercent.right = 100

\* every segment drawn by the handler of h.ctl has the night colour
AllNight == \A l \in LayersOf(h.ctl) : l.color = "#4444aa"

\* C4: when every segment of a valid route is no-sun, both tallies are 0 and
\* what is shown is a darkness report of its own, different from an ordinary
\* result and from the initial display (in both variants).
C4_DarknessReported ==
    (h.pc = "done" /\ ValidRoute(h.coords) /\ AllNight)
        => /\ h.leftSunTime = Num(0) /\ h.rightSunTime = Num(0)
           /\ sunPercent.kind = "dark"
           /\ sunPercent # InitialPercent

\* C5: after every step of the traversal of a valid route the two tallies and
\* the time of the no-sun segments add up to the travel clock, so the tallies
\* never exceed the elapsed time.
C5_TalliesAccountForClock ==
    (h.pc \in {"forEach", "done"} /\ ValidRoute(h.coords))
        => /\ NumAdd(NumAdd(h.leftSunTime, h.rightSunTime), h.nightTime) = h.cumulativeTime
           /\ h.cumulativeTime = Elapsed(variant, h.coords, h.i - 1)
           /\ ~NumGt(NumAdd(h.leftSunTime, h.rightSunTime), h.cumulativeTime)

C5_Witness ==
    /\ h.pc = "forEach" /\ ValidRoute(h.coords) /\ h.i = 3
    /\ NumGt(h.leftSunTime, Num(0)) /\ NumGt(h.nightTime, Num(0))
    /\ h.rightSunTime = Num(0)

\* C6: a segment is no-sun exactly when the altitude sampled for it is
\* <= -0.833 degrees (in both variants).
C6_NightIffBelowThreshold ==
    (h.pc \in {"forEach", "done"} /\ h.last # NoSeg /\ ~isNaN(h.last.sun.altitude))
        => (h.last.class = "night" <=> h.last.sun.altitude.v <= -833)

\* C7: (part_000) a segment whose sun is above the threshold adds its full
\* duration to rightSunTime exactly when relAngle > 0, and to leftSunTime
\* exactly when relAngle <= 0.
C7_SideByRelAngle ==
    [][ ( /\ variant = "part_000"
          /\ h.pc = "forEach" /\ h'.pc = "forEach" /\ h'.i = h.i + 1
          /\ NumGt(h'.last.sun.altitude, Num(-833)) )
        => IF h'.last.relAngle.v > 0
           THEN /\ h'.last.class = "right"
                /\ h'.rightSunTime = NumAdd(h.rightSunTime, h'.last.segmentTime)
                /\ h'.leftSunTime = h.leftSunTime
           ELSE /\ h'.last.class = "left"
                /\ h'.leftSunTime = NumAdd(h.leftSunTime, h'.last.segmentTime)
                /\ h'.rightSunTime = h.rightSunTime ]_vars

\* the sun dead ahead of a segment of positive duration, above the threshold: left
C7_Witness ==
    /\ variant = "part_000" /\ h.pc = "forEach" /\ h.last # NoSeg
    /\ NumGt(h.last.sun.altitude, Num(-833))
    /\ h.last.relAngle = Num(0) /\ h.last.class = "left"
    /\ NumGt(h.last.segmentTime, Num(0))

\* C8: an invalid start instant makes the handler fail: an error is shown,
\* nothing is drawn and nothing is reported.
C8_InvalidTimeFails ==
    (Ended /\ ValidRoute(h.coords) /\ isNaN(h.startTime)) => (error # "" /\ NoOutput)

\* C9: (part_000) a route with a non-finite coordinate makes the handler fail
\* with an error and without partial output.
C9_NonFiniteNoPartialOutput ==
    (variant = "part_000" /\ Ended /\ h.routes # << >> /\ ~FiniteRoute(h.coords))
        => (error # "" /\ NoOutput)

\* the control of the most recent request that reached the routing service
Latest == Len(controls)

\* C10: between handlers, every segment on the map was drawn for the latest
\* request, and once the latest request has been answered #sunPercent does
\* not hold a result written for an earlier request.
C10_OnlyLatestRendered ==
    ~Running
        => /\ \A l \in layers : l.ctl = Latest
           /\ (Latest > 0 /\ ~controls[Latest].pending /\ shownBy # 0 /\ shownBy # Latest)
                  => sunPercent = InitialPercent

\* the pairs (k, k+1) of coords with k < n, as the polylines that join them
PairsBefore(coords, n) ==
    { [i |-> k, from |-> coords[k], to |-> coords[k + 1]] : k \in 1..(n - 1) }

\* the polylines of control c on the map, without their colour
DrawnPairs(c) == { [i |-> l.i, from |-> l.from, to |-> l.to] : l \in LayersOf(c) }

\* C11: the traversal of a valid route of n coordinates visits the pairs
\* (i, i+1) in travel order, each once, drawing one polyline from coordinate i
\* to coordinate i+1 for each, and ends with exactly n-1 segments (1 segment
\* for 2 points).  It terminates: every step of a running traversal moves on
\* to the next pair, so it makes n-1 passes, and past the last pair the lines
\* after the forEach can run and end it.
C11_OneSegmentPerPair ==
    /\ [] ( (h.pc \in {"forEach", "done"} /\ ValidRoute(h.coords))
              => /\ h.i <= Len(h.coords)
                 /\ DrawnPairs(h.ctl) = PairsBefore(h.coords, h.i)
                 /\ Cardinality(LayersOf(h.ctl)) = h.i - 1
                 /\ h.pc = "done" => Cardinality(LayersOf(h.ctl)) = Len(h.coords) - 1
                 /\ (h.pc = "forEach" /\ h.i = Len(h.coords)) => ENABLED Finish )
    /\ [][ (h.pc = "forEach" /\ ValidRoute(h.coords))
              => \/ /\ h.i < Len(h.coords)
                    /\ h'.pc = "forEach" /\ h'.i = h.i + 1
                    /\ DrawnPairs(h.ctl)' = DrawnPairs(h.ctl) \cup
                           { [i |-> h.i, from |-> h.coords[h.i], to |-> h.coords[h.i + 1]] }
                 \/ /\ h.i = Len(h.coords)
                    /\ h'.pc = "done" /\ h'.i = h.i
                    /\ layers' = layers ]_vars

C11_Witness ==
    /\ h.pc = "done" /\ ValidRoute(h.coords) /\ Len(h.coords) = 3
    /\ Cardinality(LayersOf(h.ctl)) = 2

\* what a logged traversal produced: per segment its class and duration, the
\* tallies, what was written into #sunPercent
Outcome(run) ==
    [ segs         |-> [k \in 1..Len(run.segs) |->
                           [class |-> run.segs[k].class,
                            segmentTime |-> run.segs[k].segmentTime]],
      leftSunTime  |-> run.leftSunTime,
      rightSunTime |-> run.rightSunTime,
      html         |-> run.html ]

\* C12: two traversals of the same route from the same start instant (at the
\* variant's speed) give the same classes and durations per segment, the same
\* tallies and the same percentages, whatever ran before and whatever state
\* the component was in.
C12_Deterministic ==
    \A a, b \in 1..Len(runs.seq) :
        ( /\ runs.seq[a].done /\ runs.seq[b].done
          /\ runs.seq[a].coords = runs.seq[b].coords
          /\ runs.seq[a].startTime = runs.seq[b].startTime )
            => Outcome(runs.seq[a]) = Outcome(runs.seq[b])

\* a route traversed twice from the same instant, with sun on its first
\* segment and none on the second; the second traversal started with the
\* polylines and the result of the first in place
C12_Witness ==
    /\ Len(runs.seq) >= 2
    /\ runs.seq[1].done /\ runs.seq[2].done
    /\ runs.seq[1].coords = runs.seq[2].coords
    /\ runs.seq[1].startTime = runs.seq[2].startTime
    /\ Len(runs.seq[1].segs) = 2
    /\ runs.seq[1].segs[1].class # "night" /\ runs.seq[1].segs[2].class = "night"
    /\ runs.seq[1].ctl # runs.seq[2].ctl

\* a segment has been classified with a sun whose position is a number
Sampled == h.pc \in {"forEach", "done"} /\ h.last # NoSeg /\ ~isNaN(h.last.sun.azimuth)

\* C13: (part_000) the relative angle used for the classification lies in
\* (-180, 180]: -180 is never produced.
C13_RelAngleInRange ==
    (variant = "part_000" /\ Sampled)
        => (h.last.relAngle.v > -180 /\ h.last.relAngle.v <= 180)

\* C14: with the sun above the horizon, the signed convention of part_000 and
\* the [0, 360) convention of page put the segment on the same side.
C14_ConventionsAgree ==
    (Sampled /\ h.last.sun.altitude.v > 0)
        => ( IsRight("part_000", relAngleSigned(h.last.sun.azimuth, h.last.heading))
               <=> IsRight("page", relAngleModular(h.last.sun.azimuth, h.last.heading)) )

\* a segment heading due east has been classified with the sun above the
\* horizon (part_000)
EastboundInSun ==
    /\ variant = "part_000" /\ Sampled
    /\ h.last.heading = Num(90)
    /\ NumGt(h.last.sun.altitude, Num(HORIZON_THRESHOLD))

\* C15 as stated: heading due east, sun above the horizon with azimuth in
\* (180, 360): the relative angle is negative and the segment is left-sun.
C15_ScenarioC ==
    (EastboundInSun /\ h.last.sun.azimuth.v > 180 /\ h.last.sun.azimuth.v < 360)
        => (h.last.relAngle.v < 0 /\ h.last.class = "left")

\* C15 amended: heading due east, sun above the horizon: with the azimuth in
\* (270, 360) the relative angle is negative and the segment is left-sun;
\* with the azimuth in (180, 270] the relative angle is in (90, 180] and the
\* segment is right-sun.
C15_ScenarioC_Amended ==
    /\ (EastboundInSun /\ h.last.sun.azimuth.v > 270 /\ h.last.sun.azimuth.v < 360)
           => (h.last.relAngle.v < 0 /\ h.last.class = "left")
    /\ (EastboundInSun /\ h.last.sun.azimuth.v > 180 /\ h.last.sun.azimuth.v <= 270)
           => (h.last.relAngle.v > 90 /\ h.last.relAngle.v <= 180 /\ h.last.class = "right")

\* the sun in the north-west of an eastbound segment of positive duration
C15_Witness ==
    /\ EastboundInSun /\ h.last.sun.azimuth = Num(315)
    /\ h.last.class = "left" /\ NumGt(h.leftSunTime, Num(0))

\* C16: during the traversal of a valid route the travel clock never
\* decreases: it starts at 0, changes only by the addition of the duration of
\* the segment being processed, every duration is >= 0, and after the last
\* segment it is the sum of all the durations (in both variants).
C16_ClockMonotone ==
    /\ [] ( (h.pc \in {"forEach", "done"} /\ ValidRoute(h.coords))
              => /\ ~NumLt(h.cumulativeTime, Num(0))
                 /\ h.pc = "done"
                       => h.cumulativeTime = Elapsed(variant, h.coords, Len(h.coords) - 1) )
    /\ [][ (h'.pc \in {"forEach", "done"} /\ ValidRoute(h'.coords))
              => IF h.pc # "forEach" THEN h'.cumulativeTime = Num(0)
                 ELSE IF h'.i = h.i THEN h'.cumulativeTime = h.cumulativeTime
                 ELSE /\ h'.cumulativeTime = NumAdd(h.cumulativeTime, h'.last.segmentTime)
                      /\ h'.last.segmentTime =
                             timePerSegment(h.coords[h.i].lat, h.coords[h.i].lng,
                                            h.coords[h.i + 1].lat, h.coords[h.i + 1].lng,
                                            Speed(variant))
                      /\ ~NumLt(h'.last.segmentTime, Num(0))
                      /\ ~NumLt(h'.cumulativeTime, h.cumulativeTime) ]_vars

\* a route out and back: a westward segment after an eastward one
C16_Witness ==
    /\ h.pc = "done" /\ ValidRoute(h.coords) /\ Len(h.coords) = 3
    /\ h.coords[2].lng.v > h.coords[1].lng.v /\ h.coords[3].lng.v < h.coords[2].lng.v
    /\ NumGt(h.cumulativeTime, h.last.segmentTime)

\* C17: both tallies start at 0 and never decrease during the traversal, and
\* the percentages are computed once, by the step that ends the traversal,
\* from the tallies as they stand after the last segment (in both variants).
C17_TalliesMonotoneFinalisedOnce ==
    [][ /\ (h'.pc = "forEach" /\ h.pc # "forEach")
              => (h'.leftSunTime = Num(0) /\ h'.rightSunTime = Num(0))
        /\ (h.pc = "forEach" /\ h'.pc = "forEach")
              => /\ ~NumLt(h'.leftSunTime, h.leftSunTime)
                 /\ ~NumLt(h'.rightSunTime, h.rightSunTime)
                 /\ sunPercent' = sunPercent /\ shownBy' = shownBy
        /\ (sunPercent' # sunPercent \/ shownBy' # shownBy)
              => /\ h.pc = "forEach" /\ h'.pc = "done"
                 /\ h.i >= Len(h.coords)
                 /\ DrawnPairs(h.ctl) = PairsBefore(h.coords, Len(h.coords))
                 /\ h'.leftSunTime = h.leftSunTime /\ h'.rightSunTime = h.rightSunTime
                 /\ sunPercent' = PercentHTML(variant, h.leftSunTime, h.rightSunTime)
        /\ h.pc = "done" => (sunPercent' = sunPercent /\ shownBy' = shownBy) ]_vars

\* a result written after a traversal whose tallies changed on the last segment
C17_Witness ==
    /\ h.pc = "done" /\ ValidRoute(h.coords) /\ Len(h.coords) = 3
    /\ shownBy = h.ctl
    /\ NumGt(h.leftSunTime, Num(0)) /\ NumGt(h.rightSunTime, Num(0))
    /\ h.last.class = "right"
    /\ sunPercent = PercentHTML(variant, h.leftSunTime, h.rightSunTime)

\* the suggestion list and the text of a field
ListOf(f) == IF f = "start" THEN startSuggestions ELSE endSuggestions
TextOf(f) == IF f = "start" THEN startText ELSE endText

\* C18: once the user's last action on a field is an edit to a text of
\* length <= 2 or the selection of a suggestion, the field's suggestion list
\* is empty, and stays so until the next edit to a text longer than 2
\* characters, whatever timers are pending and whatever searches are in
\* flight (in both variants).
C18_EmptiedListStaysEmpty ==
    \A f \in Fields : quiet[f] => ListOf(f) = NoSuggestions

\* C19: the results a step stores in the suggestion list of a field are those
\* of the search for the text the field holds, the most recently typed one:
\* the response for an older text never replaces the list (in both variants).
C19_ListIsForLatestText ==
    [][ \A f \in Fields :
          (ListOf(f)' # ListOf(f) /\ ListOf(f)' # NoSuggestions)
              => ListOf(f)' = ResultsFor(TextOf(f)') ]_vars

\* C20: from resetRoute until the user's next action, routeCalculated is
\* false, the texts and coordinates are cleared, no routing control is attached
\* and no route segment is on the map, even if the routesfound event of an
\* earlier request is delivered meanwhile (part_000).
C20_ResetStaysReset ==
    sinceReset
        => /\ ~routeCalculated
           /\ startText = "" /\ endText = ""
           /\ startCoords = NoCoord /\ endCoords = NoCoord
           /\ routingControlRef = 0
           /\ layers = {}

\* the text field f held when the Draw button was clicked: the text the
\* invocation of drawRouteSun in progress has captured, or, when none is
\* suspended, the text in the field
ClickedText(f) ==
    IF draw.pc = "idle" THEN TextOf(f)
    ELSE IF f = "start" THEN draw.startText ELSE draw.endText

\* C21: drawRouteSun routes between the locations named by the contents of
\* the start and end fields: whenever it creates a routing control, the
\* waypoints of the control are the places the geocoder has under the texts
\* the fields held when Draw was clicked -- coordinates stored by an earlier
\* selection for a text that has since been edited are not used.
C21_RouteFromCurrentText ==
    [][ Len(controls') > Len(controls)
          => /\ Trim(ClickedText("start")) # ""
             /\ Trim(ClickedText("end")) # ""
             /\ controls'[Len(controls')].waypoints
                   = << PlaceOf(ClickedText("start")).coord,
                        PlaceOf(ClickedText("end")).coord >> ]_vars

\* C22: an invocation of drawRouteSun that set isLoading leaves it false when
\* it ends, on every path: isLoading is false whenever no invocation is
\* suspended at a lookup, the step that issues the routing request leaves
\* isLoading false with the response outstanding, isLoading is false while
\* the response of the attached control is outstanding, and isLoading never
\* stays true.
C22_LoadingReset ==
    /\ [](draw.pc = "idle" => ~isLoading)
    /\ []((routingControlRef # 0 /\ controls[routingControlRef].pending) => ~isLoading)
    /\ [][ Len(controls') > Len(controls)
             => ~isLoading' /\ controls'[Len(controls')].pending ]_vars
    /\ (isLoading ~> ~isLoading)

\* an invocation that looked both locations up (the only way coordinates get
\* stored when no suggestion is selected), and so had set isLoading, has
\* ended with its routing request issued and not yet answered
C22_Witness ==
    /\ draw.pc = "idle" /\ ~isLoading
    /\ routingControlRef # 0
    /\ controls[routingControlRef].pending
    /\ controls[routingControlRef].waypoints = << startCoords, endCoords >>

\* the locals start / end of an invocation do not name two finite locations
Unresolved(d) ==
    \/ d.start = NoCoord \/ d.end = NoCoord
    \/ HasNaN(d.start) \/ HasNaN(d.end)

\* a step in which an invocation of drawRouteSun reaches its validation with
\* start / end unresolved: at once (nothing to look up), after the start
\* lookup, or after the end lookup
ValidationFails ==
    \/ /\ DrawRouteSun
       /\ draw'.pc = "idle"
       /\ Unresolved([start |-> startCoords, end |-> endCoords])
    \/ \E res \in DrawGeoResults :
          /\ GeocodeStart(res)
          /\ draw'.pc = "idle"
          /\ Unresolved([draw EXCEPT !.start = res])
    \/ \E res \in DrawGeoResults :
          /\ GeocodeEnd(res)
          /\ Unresolved([draw EXCEPT !.end = res])

\* C23: when drawRouteSun cannot resolve both locations, or a resolved
\* coordinate is NaN, it sets the error message and returns without creating
\* or attaching a routing control: routingControlRef is null, no request has
\* been issued (no control was added), no segment is on the map.
C23_ValidationFailure ==
    [][ ValidationFails
          => /\ error' # ""
             /\ controls' = controls
             /\ routingControlRef' = 0
             /\ layers' = {}
             /\ draw'.pc = "idle" ]_vars

\* the handler of part_000 has written its result into #sunPercent and the
\* total sun time is > 0
SeatShown ==
    /\ variant = "part_000"
    /\ h.pc = "done"
    /\ shownBy = h.ctl
    /\ NumGt(NumAdd(h.leftSunTime, h.rightSunTime), Num(0))

\* C24: when total sun time is > 0, the recommendation shown is "sit on the
\* right side" exactly when leftPercent > rightPercent + 5, "sit on the left
\* side" exactly when rightPercent > leftPercent + 5 and "both sides similar"
\* otherwise (so exactly one of the three), and the recommended side is never
\* the side with the larger sun percentage.
C24_SeatRecommendation ==
    SeatShown =>
        LET total        == NumAdd(h.leftSunTime, h.rightSunTime)
            leftPercent  == RoundPercent(h.leftSunTime, total)
            rightPercent == RoundPercent(h.rightSunTime, total)
            shown        == sunPercent.suggestion
        IN  /\ sunPercent.kind = "result"
            /\ sunPercent.left = leftPercent /\ sunPercent.right = rightPercent
            /\ (shown = "Sit on the right side to avoid sun") <=> (leftPercent > rightPercent + 5)
            /\ (shown = "Sit on the left side to avoid sun") <=> (rightPercent > leftPercent + 5)
            /\ (shown = "Both sides get similar sun exposure")
                  <=> (leftPercent <= rightPercent + 5 /\ rightPercent <= leftPercent + 5)
            /\ (shown = "Sit on the right side to avoid sun") => rightPercent < leftPercent
            /\ (shown = "Sit on the left side to avoid sun") => leftPercent < rightPercent

\* percentages that differ by more than the margin: the other side is
\* recommended
C24_Witness ==
    /\ SeatShown
    /\ sunPercent.kind = "result"
    /\ sunPercent.left = 47 /\ sunPercent.right = 53
    /\ sunPercent.suggestion = "Sit on the left side to avoid sun"

=============================================================================
